---------------------------- MODULE Spec2Model ----------------------------
(***************************************************************************)
(* collective.indexing: the queue of deferred index operations             *)
(*   src/collective/indexing/reducer.py      QueueReducer                  *)
(*   src/src/collective/indexing/queue.py    IndexQueue, processQueue      *)
(*   src/collective/indexing/queue.py        the earlier IndexQueue        *)
(*                                                                         *)
(* A queue entry is the tuple (operator, object, attributes), written here *)
(* as the record [op, obj, attr].  The attributes are either None ("all    *)
(* fields") or a list/tuple of names: [isList |-> FALSE] is None and       *)
(* [isList |-> TRUE, items |-> <<...>>] a list, so that isinstance(attr,   *)
(* (tuple, list)) is attr.isList.                                          *)
(***************************************************************************)
EXTENDS Integers, Sequences, FiniteSets, TLC

VARIABLES
    queue,      \* IndexQueue.queue: the list of queued entries
    tmhook,     \* IndexQueue.tmhook: None, QueueTM(self).register or a hook set by setHook
    processing, \* the module's set of the queues processQueue is flushing
    nutils,     \* how many IIndexQueueProcessor utilities are registered
    reducer,    \* whether an IQueueReducer utility is registered
    pc,         \* where the running process() stands, "idle" outside of it
    caller,     \* who called the process() that runs or ran last: "processQueue" or "process"
    pos,        \* the position of the loop over the queue (line 140)
    upos,       \* the position of the loop over the utilities (line 141)
    processed,  \* the local counter of process()
    loopq,      \* the list process() iterates over, once self.queue is another list
    aliased,    \* whether the list process() iterates over is still self.queue
    calls,      \* the calls the utilities received during the current or last call
    ret,        \* what the last call from outside returned
    err,        \* the exception that call raised, "" for none
    nested,     \* what a processQueue() called from within a utility returned, -1 for no such call
    rarg,       \* the list handed to QueueReducer.optimize
    rres,       \* the list QueueReducer.optimize returned
    rcalled,    \* whether QueueReducer.optimize has returned
    path,       \* the physical path of the content object, as its getPhysicalPath() returns it
    tq,         \* IndexQueue.queue as each thread finds it
    thook,      \* IndexQueue.tmhook as each thread finds it
    tpc,        \* where each thread stands in processQueue(), "idle" outside of it
    tlast,      \* the last call each thread made and the entries it got to see
    snap        \* the list the getState() just made returned, and whether it was put back

rvars == <<rarg, rres, rcalled>>

\* the variables the steps of the queue leave alone
xvars == <<path, tq, thook, tpc, tlast>>

qvars == <<queue, tmhook, processing, nutils, reducer, pc, caller, pos, upos,
           processed, loopq, aliased, calls, ret, err, nested>>

vars == <<queue, tmhook, processing, nutils, reducer, pc, caller, pos, upos,
          processed, loopq, aliased, calls, ret, err, nested,
          rarg, rres, rcalled, path, tq, thook, tpc, tlast, snap>>

(***************************************************************************)
(* Bounds of the model.                                                    *)
(***************************************************************************)
MaxLen == 3
MaxQueue == 2
MaxUtils == 2

(***************************************************************************)
(* collective.indexing.config: the operators are -1, 0 and 1.              *)
(***************************************************************************)
INDEX == 1
REINDEX == 0
UNINDEX == -1

Ops == {INDEX, REINDEX, UNINDEX}

Keys == {"/a", "/b"}

AttrNames == {"title", "body"}

\* the order in which a dict of attribute names lists its keys
KeyOrder == <<"body", "title">>

None == [isList |-> FALSE, items |-> <<>>]

ListOf(s) == [isList |-> TRUE, items |-> s]

AttrChoices == {None, ListOf(<<"title">>), ListOf(<<"body">>),
                ListOf(<<"title", "title">>)}

Entry(op, obj, attr) == [op |-> op, obj |-> obj, attr |-> attr]

\* the entries index(), reindex() and unindex() append
ApiEntries ==
    {Entry(op, k, a) : op \in {INDEX, REINDEX}, k \in Keys, a \in AttrChoices}
        \cup {Entry(UNINDEX, k, None) : k \in Keys}

SeqsUpTo(S, n) == UNION {[1..m -> S] : m \in 0..n}

Range(s) == {s[x] : x \in DOMAIN s}

Min(a, b) == IF a < b THEN a ELSE b

Max(a, b) == IF a > b THEN a ELSE b

(***************************************************************************)
(* QueueReducer.optimize                                                   *)
(***************************************************************************)
\* tuple(tmp.keys()): the names of the set, each once, in the dict's order
DictKeys(S) == SelectSeq(KeyOrder, LAMBDA n : n \in S)

\* the attributes kept for nothing but the newest entry: the union is lost
MergeAttrNewestOnly(attr, iattr) ==
    IF attr.isList /\ iattr.isList
    THEN ListOf(DictKeys(Range(iattr.items)))
    ELSE None

\* lines 25-31: None means all fields and takes precedence
MergeAttr(attr, iattr) ==
    IF attr.isList /\ iattr.isList
    THEN ListOf(DictKeys(Range(attr.items) \cup Range(iattr.items)))
    ELSE None

\* res.get(obj, (0, iattr))
ResGet(res, obj, iattr) ==
    IF obj \in DOMAIN res THEN res[obj] ELSE [op |-> 0, attr |-> iattr]

\* the loop body without the rule for an object added and deleted
ReduceEntrySumOnly(res, e) ==
    LET cur == ResGet(res, e.obj, e.attr)
        op == Min(Max(cur.op + e.op, UNINDEX), INDEX)
        attr == MergeAttr(cur.attr, e.attr)
    IN [k \in DOMAIN res \cup {e.obj} |->
            IF k = e.obj THEN [op |-> op, attr |-> attr] ELSE res[k]]

\* lines 15-33: the body of the loop over the queue
ReduceEntry(res, e) ==
    LET cur == ResGet(res, e.obj, e.attr)
    IN IF cur.op = INDEX /\ e.op = UNINDEX
       THEN [k \in DOMAIN res \ {e.obj} |-> res[k]]
       ELSE LET op == Min(Max(cur.op + e.op, UNINDEX), INDEX)
                attr == MergeAttr(cur.attr, e.attr)
            IN [k \in DOMAIN res \cup {e.obj} |->
                    IF k = e.obj THEN [op |-> op, attr |-> attr] ELSE res[k]]

\* lines 13-33: res after the first n entries of the queue
RECURSIVE ReduceFold(_, _)
ReduceFold(q, n) ==
    IF n = 0 THEN << >> ELSE ReduceEntry(ReduceFold(q, n - 1), q[n])

Perms(S) == {p \in [1..Cardinality(S) -> S] : \A x, y \in DOMAIN p : p[x] = p[y] => x = y}

\* line 35: the items of res as a list, in the order the dict yields them
ResItems(res) ==
    {[x \in DOMAIN p |-> Entry(res[p[x]].op, p[x], res[p[x]].attr)] : p \in Perms(DOMAIN res)}

\* a reducer that hands the queue back as it got it
QueueReducer_optimizeUnreduced(q) == {q}

\* lines 10-35: the lists QueueReducer.optimize may return for the queue
QueueReducer_optimize(q) == ResItems(ReduceFold(q, Len(q)))


(***************************************************************************)
(* IndexQueue and processQueue (src/src/collective/indexing/queue.py)      *)
(***************************************************************************)
\* the objects handed to index, reindex and unindex; "None" is None
Objs == Keys \cup {"None"}

\* the attributes handed to index and reindex from outside
QueueAttrs == {None}

\* the module's one queue object, localQueue
LocalQueue == "localQueue"

\* an object that has a getPhysicalPath, and the paths it may have
Doc == "doc"

Paths == {"/old", "/new"}

\* the wrappers that may be alive at a time: those of the log and of the
\* list process() iterates over, and one more
Serials == 1..(2 * MaxQueue + 1)

\* lines 53-59: PathWrapper(obj), the n-th wrapper alive; it holds the path
\* the object had when it was made (line 58)
PathWrapper(n, p) == "PathWrapper#" \o ToString(n) \o " of doc at " \o p

Wrappers == {PathWrapper(n, p) : n \in Serials, p \in Paths}

\* lines 67-68: the path a wrapper returns, self.path
PathOfWrapper(w) == CHOOSE p \in Paths : \E n \in Serials : w = PathWrapper(n, p)

\* obj.getPhysicalPath() when the content object is at path p; "" for the
\* keys that have none
PhysicalPath(obj, p) ==
    IF obj \in Wrappers THEN PathOfWrapper(obj) ELSE IF obj = Doc THEN p ELSE ""

getPhysicalPath(obj) == PhysicalPath(obj, path)

\* a call a utility receives, with the path the object reports when it is made
Call(u, m, obj, attr) ==
    [util |-> u, method |-> m, obj |-> obj, attr |-> attr, path |-> getPhysicalPath(obj)]

\* one call of the method on each of the first n utilities, in the order
\* getUtilitiesFor yields them
Notify(m, n) == [u \in 1..n |-> Call(u, m, "", None)]

DispatchMethods == {"index", "reindex", "unindex"}

\* lines 142-147: the method of the utility an operator selects
MethodOf(op) ==
    IF op = INDEX THEN "index" ELSE IF op = REINDEX THEN "reindex" ELSE "unindex"

\* lines 142-147: the call a utility receives for an entry
DispatchCall(u, e) ==
    Call(u, MethodOf(e.op), e.obj, IF e.op = UNINDEX THEN None ELSE e.attr)

\* lines 140-150 run through: every entry to every utility, entry by entry
DispatchAll(q, n) ==
    [x \in 1..(Len(q) * n) |-> DispatchCall(((x - 1) % n) + 1, q[((x - 1) \div n) + 1])]

\* lines 140-149: the entries the loop gets through before line 149 raises
ValidPrefix(q) ==
    LET bad == {x \in DOMAIN q : q[x].op \notin Ops}
    IN IF bad = {} THEN q ELSE SubSeq(q, 1, (CHOOSE x \in bad : \A y \in bad : x <= y) - 1)

\* lines 140-149: the loop ends at line 149; with no utility line 149 is
\* not reached
LoopRaises(q, n) == n > 0 /\ ValidPrefix(q) # q

\* the objects the log and the list process() iterates over refer to
Held == {queue[x].obj : x \in DOMAIN queue} \cup {loopq[x].obj : x \in DOMAIN loopq}

\* wrap(obj) as line 51 alone: the object itself
wrapNothing(obj) == obj

\* lines 40-70: wrap(obj); the keys have no getPhysicalPath and are returned
\* as they are, the content object gets a new wrapper
wrap(obj) ==
    IF obj = Doc
    THEN LET free == {n \in Serials : \A p \in Paths : PathWrapper(n, p) \notin Held}
         IN PathWrapper(CHOOSE n \in free : \A m \in free : n <= m, path)
    ELSE obj

\* the threads that use the module
Threads == {1, 2}

\* the one object each thread indexes, so that an entry tells its thread
KeyOf(t) == IF t = 1 THEN "/a" ELSE "/b"

\* the attributes of an IndexQueue that is no threading.local: one set for
\* all threads
SlotShared(t) == 1

\* line 73, class IndexQueue(local): the attributes of the queue object
\* are kept per thread
Slot(t) == t

\* a thread has made no call yet, or has begun another
NoCall == [kind |-> "", seen |-> << >>]

\* no getState() was just made
NoSnap == [phase |-> "none", list |-> << >>]

InitQueue ==
    /\ queue = << >>
    /\ tmhook = "None"
    /\ processing = {}
    /\ nutils \in 0..MaxUtils
    /\ reducer \in BOOLEAN
    /\ pc = "idle"
    /\ caller = ""
    /\ pos = 0
    /\ upos = 0
    /\ processed = 0
    /\ loopq = << >>
    /\ aliased = TRUE
    /\ calls = << >>
    /\ ret = 0
    /\ err = ""
    /\ nested = -1
    /\ snap = NoSnap
    /\ path = "/old"
    /\ tq = [t \in Threads |-> << >>]
    /\ thook = [t \in Threads |-> "None"]
    /\ tpc = [t \in Threads |-> "idle"]
    /\ tlast = [t \in Threads |-> NoCall]

Init ==
    /\ InitQueue
    /\ rarg = << >>
    /\ rres = << >>
    /\ rcalled = FALSE

\* a call made on the queue from outside starts: nothing of the flush state
\* changes, and the record of the last call is begun anew
Outside ==
    /\ pc = "idle"
    /\ caller' = ""
    /\ nested' = -1
    /\ UNCHANGED <<nutils, reducer, pc, pos, upos, processed, loopq, aliased>>
    /\ UNCHANGED <<rvars, xvars>>
    /\ snap' = NoSnap

\* hook() as it would be without the test of line 86: a registration is made
\* at every call unless a hook was set
hookAnew(h) == IF h = "custom" THEN h ELSE IF h = "None" THEN "QueueTM.register"
               ELSE "another QueueTM.register"

\* lines 81-88: hook()
hook(h) == IF h = "None" THEN "QueueTM.register" ELSE h

\* lines 166-169 as they would be without the release of the hook
clearKeepHook(q, h) == [queue |-> << >>, tmhook |-> h]

\* lines 166-169: clear()
clear(q, h) == [queue |-> << >>, tmhook |-> "None"]

\* an append made before the object is looked at
appendUnchecked(op, obj, attributes) ==
    /\ Outside
    /\ Len(queue) < MaxQueue
    /\ queue' = Append(queue, Entry(op, obj, attributes))
    /\ tmhook' = hook(tmhook)
    /\ err' = IF obj = "None" THEN "AssertionError: invalid object" ELSE ""
    /\ ret' = 0
    /\ calls' = << >>
    /\ UNCHANGED processing

\* lines 90-106: index, reindex and unindex; the assert, the append, the hook
append(op, obj, attributes) ==
    /\ Outside
    /\ Len(queue) < MaxQueue
    /\ IF obj = "None"
       THEN /\ err' = "AssertionError: invalid object"
            /\ UNCHANGED <<queue, tmhook>>
       ELSE /\ queue' = Append(queue, Entry(op, obj, attributes))
            /\ tmhook' = hook(tmhook)
            /\ err' = ""
    /\ ret' = 0
    /\ calls' = << >>
    /\ UNCHANGED processing

index == \E obj \in Objs, attributes \in QueueAttrs : append(INDEX, obj, attributes)

reindex == \E obj \in Objs, attributes \in QueueAttrs : append(REINDEX, obj, attributes)

unindex == \E obj \in Objs : append(UNINDEX, IF obj = "None" THEN obj ELSE wrap(obj), None)

\* lines 102-106: unindex(obj) of the content object
unindexContent == append(UNINDEX, wrap(Doc), None)

\* the content object is renamed between two calls: its getPhysicalPath()
\* (line 58) returns another path from now on
rename ==
    /\ pc = "idle"
    /\ path' \in Paths \ {path}
    /\ UNCHANGED <<qvars, rvars, snap, tq, thook, tpc, tlast>>

\* lines 108-111: setHook(hook)
setHook ==
    \E callable \in BOOLEAN :
        /\ Outside
        /\ IF callable
           THEN tmhook' = "custom" /\ err' = ""
           ELSE tmhook' = tmhook /\ err' = "AssertionError: hook must be callable"
        /\ ret' = 0
        /\ calls' = << >>
        /\ UNCHANGED <<queue, processing>>

\* an operator that is none of the three
BadOp == 2

\* the states handed to setState
StateChoices == {<< >>, <<Entry(REINDEX, "/a", ListOf(<<"title">>))>>,
                 <<Entry(INDEX, "/a", None), Entry(INDEX, "/a", None)>>,
                 <<Entry(INDEX, "/b", None), Entry(BadOp, "/a", None)>>}

\* lines 116-119: setState(state)
setState ==
    \E isList \in BOOLEAN, state \in StateChoices :
        /\ Outside
        /\ IF isList
           THEN queue' = state /\ err' = ""
           ELSE queue' = queue /\ err' = "AssertionError: state must be a list"
        /\ ret' = 0
        /\ calls' = << >>
        /\ UNCHANGED <<tmhook, processing>>

\* line 114 with the elements of the copy in reverse
listReversed(q) == [x \in 1..Len(q) |-> q[Len(q) + 1 - x]]

\* line 114: list(self.queue), a new list of the same elements
list(q) == [x \in 1..Len(q) |-> q[x]]

\* lines 113-114: getState(); the caller holds the list it returns
getState ==
    /\ pc = "idle"
    /\ snap.phase # "taken"
    /\ caller' = ""
    /\ nested' = -1
    /\ snap' = [phase |-> "taken", list |-> list(queue)]
    /\ ret' = 0
    /\ err' = ""
    /\ calls' = << >>
    /\ UNCHANGED <<queue, tmhook, processing, nutils, reducer, pc, pos, upos,
                   processed, loopq, aliased>>
    /\ UNCHANGED <<rvars, xvars>>

\* lines 116-119: setState(getState()), the second of the two calls: the
\* list getState() just returned is handed to setState
setStateOfGetState ==
    /\ pc = "idle"
    /\ snap.phase = "taken"
    /\ caller' = ""
    /\ nested' = -1
    /\ queue' = snap.list
    /\ snap' = [phase |-> "restored", list |-> << >>]
    /\ ret' = 0
    /\ err' = ""
    /\ calls' = << >>
    /\ UNCHANGED <<tmhook, processing, nutils, reducer, pc, pos, upos,
                   processed, loopq, aliased>>
    /\ UNCHANGED <<rvars, xvars>>

\* lines 127-130: the list optimize() leaves in self.queue
Optimized(q) == IF reducer THEN QueueReducer_optimize(q) ELSE {q}

\* lines 127-130: optimize()
optimize ==
    /\ Outside
    /\ queue' \in Optimized(queue)
    /\ err' = ""
    /\ ret' = 0
    /\ calls' = << >>
    /\ UNCHANGED <<tmhook, processing>>

\* lines 166-169: clear() called from outside
clearQueue ==
    /\ Outside
    /\ queue' = clear(queue, tmhook).queue
    /\ tmhook' = clear(queue, tmhook).tmhook
    /\ err' = ""
    /\ ret' = 0
    /\ calls' = << >>
    /\ UNCHANGED processing

\* lines 155-158: commit(); a utility's commit() may raise
commit ==
    \E f \in 0..nutils :
        /\ Outside
        /\ calls' = Notify("commit", IF f = 0 THEN nutils ELSE f)
        /\ err' = IF f = 0 THEN "" ELSE "BackendError"
        /\ ret' = 0
        /\ UNCHANGED <<queue, tmhook, processing>>

\* lines 160-164: abort(); a utility's abort() may raise, and then clear()
\* is not reached
abort ==
    \E f \in 0..nutils :
        /\ Outside
        /\ calls' = Notify("abort", IF f = 0 THEN nutils ELSE f)
        /\ IF f = 0
           THEN /\ queue' = clear(queue, tmhook).queue
                /\ tmhook' = clear(queue, tmhook).tmhook
                /\ err' = ""
           ELSE /\ err' = "BackendError"
                /\ UNCHANGED <<queue, tmhook>>
        /\ ret' = 0
        /\ UNCHANGED processing


\* the guard of processQueue without the look at the processing set
ShouldFlushAlways(q, p) == Len(q) # 0

\* line 32: queue.length() and not queue in processing
ShouldFlush(q, p) == Len(q) # 0 /\ LocalQueue \notin p

\* the list the loop of process() iterates over
LoopList == IF aliased THEN queue ELSE loopq

\* process() is entered: lines 133-135
Enter(who) ==
    /\ pc = "idle"
    /\ nested' = -1
    /\ caller' = who
    /\ pc' = "begin"
    /\ processed' = 0
    /\ pos' = 0
    /\ upos' = 0
    /\ loopq' = << >>
    /\ aliased' = TRUE
    /\ calls' = << >>
    /\ err' = ""
    /\ ret' = 0
    /\ UNCHANGED <<queue, tmhook, nutils, reducer>>
    /\ UNCHANGED <<rvars, xvars>>
    /\ snap' = NoSnap

\* lines 28-37: processQueue() called from outside, up to its call of process()
processQueue ==
    IF ShouldFlush(queue, processing)
    THEN /\ Enter("processQueue")
         /\ processing' = processing \cup {LocalQueue}
    ELSE /\ Outside
         /\ ret' = 0
         /\ err' = ""
         /\ calls' = << >>
         /\ UNCHANGED <<queue, tmhook, processing>>

\* line 132: process() called from outside
process ==
    /\ Enter("process")
    /\ UNCHANGED processing

\* process() leaves with an exception; processQueue does not catch it, so
\* line 36 is not reached
Raise(e) ==
    /\ pc' = "idle"
    /\ err' = e
    /\ pos' = 0
    /\ upos' = 0
    /\ processed' = 0
    /\ loopq' = << >>
    /\ aliased' = TRUE
    /\ UNCHANGED <<queue, tmhook, processing, nutils, reducer, caller, ret, nested>>
    /\ UNCHANGED <<rvars, xvars>>
    /\ UNCHANGED snap

\* lines 136-139: begin() on every utility, then optimize()
processBegin ==
    /\ pc = "begin"
    /\ calls' = calls \o Notify("begin", nutils)
    /\ queue' \in Optimized(queue)
    /\ pos' = 1
    /\ upos' = 1
    /\ pc' = "dispatch"
    /\ UNCHANGED <<tmhook, processing, nutils, reducer, caller, processed, loopq,
                   aliased, ret, err, nested>>
    /\ UNCHANGED <<rvars, xvars>>
    /\ UNCHANGED snap

\* lines 136-137: the begin() of a utility raises
processBeginRaise ==
    /\ pc = "begin"
    /\ \E f \in 1..nutils : calls' = calls \o Notify("begin", f)
    /\ Raise("BackendError")

\* lines 140-149: the next utility is called for the entry at hand, or the
\* operator of the entry is none of the three
dispatch ==
    /\ pc = "dispatch"
    /\ pos <= Len(LoopList)
    /\ upos <= nutils
    /\ IF LoopList[pos].op \in Ops
       THEN /\ calls' = calls \o <<DispatchCall(upos, LoopList[pos])>>
            /\ pc' = "incall"
            /\ UNCHANGED <<queue, tmhook, processing, nutils, reducer, caller, pos,
                           upos, processed, loopq, aliased, ret, err, nested>>
            /\ UNCHANGED <<rvars, xvars>>
            /\ UNCHANGED snap
       ELSE /\ calls' = calls
            /\ Raise("InvalidQueueOperation")

\* the utility returns from index, reindex or unindex
dispatchReturn ==
    /\ pc = "incall"
    /\ pc' = "dispatch"
    /\ upos' = upos + 1
    /\ UNCHANGED <<queue, tmhook, processing, nutils, reducer, caller, pos,
                   processed, loopq, aliased, calls, ret, err, nested>>
    /\ UNCHANGED <<rvars, xvars>>
    /\ UNCHANGED snap

\* the utility raises from index, reindex or unindex
dispatchRaise ==
    /\ pc = "incall"
    /\ calls' = calls
    /\ Raise("BackendError")

\* line 150: the utilities are through for the entry at hand
nextEntry ==
    /\ pc = "dispatch"
    /\ pos <= Len(LoopList)
    /\ upos > nutils
    /\ processed' = processed + 1
    /\ pos' = pos + 1
    /\ upos' = 1
    /\ UNCHANGED <<queue, tmhook, processing, nutils, reducer, pc, caller, loopq,
                   aliased, calls, ret, err, nested>>
    /\ UNCHANGED <<rvars, xvars>>
    /\ UNCHANGED snap

\* lines 151-153, and lines 36-37 when processQueue made the call
processFinish ==
    /\ pc = "dispatch"
    /\ pos > Len(LoopList)
    /\ queue' = clear(queue, tmhook).queue
    /\ tmhook' = clear(queue, tmhook).tmhook
    /\ ret' = processed
    /\ processing' = IF caller = "processQueue" THEN processing \ {LocalQueue}
                     ELSE processing
    /\ pc' = "idle"
    /\ pos' = 0
    /\ upos' = 0
    /\ processed' = 0
    /\ loopq' = << >>
    /\ aliased' = TRUE
    /\ UNCHANGED <<nutils, reducer, caller, calls, err, nested>>
    /\ UNCHANGED <<rvars, xvars>>
    /\ UNCHANGED snap

\* the operations a utility queues while it is called
NestedEntries ==
    {Entry(REINDEX, "/a", ListOf(<<"title">>)), Entry(UNINDEX, wrap("/b"), None)}

\* lines 90-106: a utility, while it is called, queues an operation of its own
nestedAppend ==
    \E e \in NestedEntries :
        /\ pc = "incall"
        /\ Len(queue) < MaxQueue
        /\ Len(LoopList) < MaxQueue
        /\ queue' = Append(queue, e)
        /\ tmhook' = hook(tmhook)
        /\ UNCHANGED <<processing, nutils, reducer, pc, caller, pos, upos, processed,
                       loopq, aliased, calls, ret, err, nested>>
        /\ UNCHANGED <<rvars, xvars>>
        /\ UNCHANGED snap

\* lines 28-37: a utility, while it is called, calls processQueue(); a flush
\* it starts runs through (lines 132-153) before the utility goes on, or
\* raises on line 149, and the exception then leaves the utility and the
\* process() that called it
nestedProcessQueue ==
    /\ pc = "incall"
    /\ nested = -1
    /\ IF ShouldFlush(queue, processing)
       THEN \E q \in Optimized(queue) :
              /\ calls' = calls \o Notify("begin", nutils)
                                \o DispatchAll(ValidPrefix(q), nutils)
              /\ IF LoopRaises(q, nutils)
                 THEN /\ queue' = q
                      /\ tmhook' = tmhook
                      /\ processing' = processing \cup {LocalQueue}
                      /\ nested' = -1
                      /\ err' = "InvalidQueueOperation"
                      /\ pc' = "idle"
                      /\ pos' = 0
                      /\ upos' = 0
                      /\ processed' = 0
                      /\ loopq' = << >>
                      /\ aliased' = TRUE
                 ELSE /\ queue' = clear(q, tmhook).queue
                      /\ tmhook' = clear(q, tmhook).tmhook
                      /\ nested' = Len(q)
                      /\ IF aliased /\ reducer
                         THEN loopq' = queue /\ aliased' = FALSE
                         ELSE UNCHANGED <<loopq, aliased>>
                      /\ UNCHANGED <<processing, pc, pos, upos, processed, err>>
       ELSE /\ nested' = 0
            /\ UNCHANGED <<queue, tmhook, calls, loopq, aliased>>
            /\ UNCHANGED <<processing, pc, pos, upos, processed, err>>
    /\ UNCHANGED <<nutils, reducer, caller, ret>>
    /\ UNCHANGED <<rvars, xvars>>
    /\ UNCHANGED snap

Next ==
    \/ index
    \/ reindex
    \/ unindex
    \/ setHook
    \/ setState
    \/ optimize
    \/ clearQueue
    \/ commit
    \/ abort
    \/ processQueue
    \/ process
    \/ processBegin
    \/ processBeginRaise
    \/ dispatch
    \/ dispatchReturn
    \/ dispatchRaise
    \/ nextEntry
    \/ processFinish
    \/ nestedAppend
    \/ nestedProcessQueue

Spec == Init /\ [][Next]_vars

\* the queue with a content object that is unindexed and renamed
InitPath ==
    /\ Init
    /\ nutils = 1

NextPath ==
    \/ Next
    \/ unindexContent
    \/ rename

SpecPath == InitPath /\ [][NextPath]_vars

\* the variables of the queue of one thread, taken by itself
svars == <<queue, tmhook, nutils, reducer, pc, caller, pos, upos, processed, loopq,
           aliased, calls, ret, err, nested, rvars, path, snap>>

\* lines 90-106 in thread t: index, reindex or unindex of the thread's object
threadAppend(t, op) ==
    /\ tpc[t] = "idle"
    /\ Len(tq[Slot(t)]) < MaxQueue
    /\ tq' = [tq EXCEPT ![Slot(t)] = Append(@, Entry(op, wrap(KeyOf(t)), None))]
    /\ thook' = [thook EXCEPT ![Slot(t)] = hook(@)]
    /\ tlast' = [tlast EXCEPT ![t] = NoCall]
    /\ UNCHANGED <<tpc, processing, svars>>

threadIndex == \E t \in Threads : threadAppend(t, INDEX)

threadReindex == \E t \in Threads : threadAppend(t, REINDEX)

threadUnindex == \E t \in Threads : threadAppend(t, UNINDEX)

\* lines 113-114 in thread t: getState()
threadGetState ==
    \E t \in Threads :
        /\ tpc[t] = "idle"
        /\ tlast' = [tlast EXCEPT ![t] = [kind |-> "getState", seen |-> list(tq[Slot(t)])]]
        /\ UNCHANGED <<tq, thook, tpc, processing, svars>>

\* lines 160-164 in thread t: abort(), no utility failing
threadAbort ==
    \E t \in Threads :
        /\ tpc[t] = "idle"
        /\ tq' = [tq EXCEPT ![Slot(t)] = clear(@, thook[Slot(t)]).queue]
        /\ thook' = [thook EXCEPT ![Slot(t)] = clear(tq[Slot(t)], @).tmhook]
        /\ tlast' = [tlast EXCEPT ![t] = [kind |-> "abort", seen |-> << >>]]
        /\ UNCHANGED <<tpc, processing, svars>>

\* lines 166-169 in thread t: clear()
threadClear ==
    \E t \in Threads :
        /\ tpc[t] = "idle"
        /\ tq' = [tq EXCEPT ![Slot(t)] = clear(@, thook[Slot(t)]).queue]
        /\ thook' = [thook EXCEPT ![Slot(t)] = clear(tq[Slot(t)], @).tmhook]
        /\ tlast' = [tlast EXCEPT ![t] = [kind |-> "clear", seen |-> << >>]]
        /\ UNCHANGED <<tpc, processing, svars>>

\* lines 30-32 and 37 in thread t: processQueue() up to the test of line
\* 32, and the return of 0 when it fails
threadProcessQueue ==
    \E t \in Threads :
        /\ tpc[t] = "idle"
        /\ IF ShouldFlush(tq[Slot(t)], processing)
           THEN /\ tpc' = [tpc EXCEPT ![t] = "tested"]
                /\ tlast' = [tlast EXCEPT ![t] = NoCall]
           ELSE /\ tpc' = tpc
                /\ tlast' = [tlast EXCEPT ![t] = [kind |-> "skipped", seen |-> << >>]]
        /\ UNCHANGED <<tq, thook, processing, svars>>

\* line 34 in thread t: processing.add(queue)
threadAdd ==
    \E t \in Threads :
        /\ tpc[t] = "tested"
        /\ processing' = processing \cup {LocalQueue}
        /\ tpc' = [tpc EXCEPT ![t] = "added"]
        /\ UNCHANGED <<tq, thook, tlast, svars>>

\* line 35 in thread t: queue.process() (lines 132-153), no utility failing
threadProcess ==
    \E t \in Threads :
        \E q \in Optimized(tq[Slot(t)]) :
            /\ tpc[t] = "added"
            /\ tlast' = [tlast EXCEPT ![t] = [kind |-> "process", seen |-> q]]
            /\ tq' = [tq EXCEPT ![Slot(t)] = clear(q, thook[Slot(t)]).queue]
            /\ thook' = [thook EXCEPT ![Slot(t)] = clear(q, @).tmhook]
            /\ tpc' = [tpc EXCEPT ![t] = "processed"]
            /\ UNCHANGED <<processing, svars>>

\* lines 36-37 in thread t: processing.remove(queue), a KeyError when the
\* queue is not in the set, and the return
threadRemove ==
    \E t \in Threads :
        /\ tpc[t] = "processed"
        /\ IF LocalQueue \in processing
           THEN /\ processing' = processing \ {LocalQueue}
                /\ tlast' = [tlast EXCEPT ![t] = [kind |-> "flushed", seen |-> @.seen]]
           ELSE /\ processing' = processing
                /\ tlast' = [tlast EXCEPT ![t] = [kind |-> "KeyError", seen |-> @.seen]]
        /\ tpc' = [tpc EXCEPT ![t] = "idle"]
        /\ UNCHANGED <<tq, thook, svars>>

\* two threads using the module's queue, in any interleaving
InitThreads ==
    /\ Init
    /\ nutils = 1
    /\ reducer = FALSE

NextThreads ==
    \/ threadIndex
    \/ threadReindex
    \/ threadUnindex
    \/ threadGetState
    \/ threadAbort
    \/ threadClear
    \/ threadProcessQueue
    \/ threadAdd
    \/ threadProcess
    \/ threadRemove

SpecThreads == InitThreads /\ [][NextThreads]_vars

\* the queue with callers that also write setState(getState()): the two
\* calls follow each other, every other call comes before or after them
InitState ==
    /\ Init
    /\ nutils = 1

NextState ==
    \/ getState
    \/ setStateOfGetState
    \/ snap.phase # "taken" /\ Next

SpecState == InitState /\ [][NextState]_vars


(***************************************************************************)
(* The earlier IndexQueue (src/collective/indexing/queue.py): the queue    *)
(* and the hook are thread-local values, process() does not reduce the     *)
(* queue and commits the utilities itself.                                 *)
(***************************************************************************)
InitLegacy ==
    /\ queue = << >>
    /\ tmhook = "lambda: 42"
    /\ processing = {}
    /\ nutils \in 0..MaxUtils
    /\ reducer \in BOOLEAN
    /\ pc = "idle"
    /\ caller = ""
    /\ pos = 0
    /\ upos = 0
    /\ processed = 0
    /\ loopq = << >>
    /\ aliased = TRUE
    /\ calls = << >>
    /\ ret = 0
    /\ err = ""
    /\ nested = -1
    /\ snap = NoSnap
    /\ path = "/old"
    /\ tq = [t \in Threads |-> << >>]
    /\ thook = [t \in Threads |-> "None"]
    /\ tpc = [t \in Threads |-> "idle"]
    /\ tlast = [t \in Threads |-> NoCall]
    /\ rarg = << >>
    /\ rres = << >>
    /\ rcalled = FALSE

\* lines 47-63: index, reindex and unindex
old_append(op, obj, attributes) ==
    /\ Outside
    /\ Len(queue) < MaxQueue
    /\ IF obj = "None"
       THEN /\ err' = "AssertionError: invalid object"
            /\ UNCHANGED queue
       ELSE /\ queue' = Append(queue, Entry(op, obj, attributes))
            /\ err' = ""
    /\ ret' = 0
    /\ calls' = << >>
    /\ UNCHANGED <<tmhook, processing>>

old_index == \E obj \in Objs, attributes \in QueueAttrs : old_append(INDEX, obj, attributes)

old_reindex == \E obj \in Objs, attributes \in QueueAttrs : old_append(REINDEX, obj, attributes)

old_unindex == \E obj \in Objs : old_append(UNINDEX, obj, None)

\* lines 65-68: setHook(hook)
old_setHook ==
    \E callable \in BOOLEAN :
        /\ Outside
        /\ IF callable
           THEN tmhook' = "custom" /\ err' = ""
           ELSE tmhook' = tmhook /\ err' = "AssertionError: hook must be callable"
        /\ ret' = 0
        /\ calls' = << >>
        /\ UNCHANGED <<queue, processing>>

\* lines 73-76: setState(state)
old_setState ==
    \E isList \in BOOLEAN, state \in StateChoices :
        /\ Outside
        /\ IF isList
           THEN queue' = state /\ err' = ""
           ELSE queue' = queue /\ err' = "AssertionError: state must be a list"
        /\ ret' = 0
        /\ calls' = << >>
        /\ UNCHANGED <<tmhook, processing>>

\* lines 78-81: optimize()
old_optimize ==
    /\ Outside
    /\ queue' \in Optimized(queue)
    /\ err' = ""
    /\ ret' = 0
    /\ calls' = << >>
    /\ UNCHANGED <<tmhook, processing>>

\* lines 107-109: clear()
old_clear ==
    /\ Outside
    /\ queue' = << >>
    /\ err' = ""
    /\ ret' = 0
    /\ calls' = << >>
    /\ UNCHANGED <<tmhook, processing>>

\* lines 87-102: the calls of a process() no utility fails in
old_ProcessCalls(q, n) == Notify("begin", n) \o DispatchAll(q, n) \o Notify("commit", n)

\* lines 83-105: process(); a call of a utility may raise, and ends it
\* there, and so does line 98 at an entry of no known operator
old_process ==
    \E k \in 0..Len(old_ProcessCalls(ValidPrefix(queue), nutils)) :
        /\ pc = "idle"
        /\ caller' = "process"
        /\ nested' = -1
        /\ IF k = 0 /\ ~LoopRaises(queue, nutils)
           THEN /\ calls' = old_ProcessCalls(queue, nutils)
                /\ queue' = << >>
                /\ ret' = Len(queue)
                /\ err' = ""
           ELSE IF k = 0
           THEN /\ calls' = Notify("begin", nutils) \o DispatchAll(ValidPrefix(queue), nutils)
                /\ queue' = queue
                /\ ret' = 0
                /\ err' = "InvalidQueueOperation"
           ELSE /\ k <= Len(Notify("begin", nutils) \o DispatchAll(ValidPrefix(queue), nutils))
                   \/ ~LoopRaises(queue, nutils)
                /\ calls' = SubSeq(old_ProcessCalls(ValidPrefix(queue), nutils), 1, k)
                /\ queue' = queue
                /\ ret' = 0
                /\ err' = "BackendError"
        /\ UNCHANGED <<tmhook, processing, nutils, reducer, pc, pos, upos, processed,
                       loopq, aliased>>
        /\ UNCHANGED <<rvars, xvars>>
        /\ snap' = NoSnap

NextLegacy ==
    \/ old_index
    \/ old_reindex
    \/ old_unindex
    \/ old_setHook
    \/ old_setState
    \/ old_optimize
    \/ old_clear
    \/ old_process

SpecLegacy == InitLegacy /\ [][NextLegacy]_vars

(***************************************************************************)
(* The reducer as a function: any log the operations can build is handed   *)
(* to QueueReducer.optimize once.                                          *)
(***************************************************************************)
InitReducer ==
    /\ rarg \in SeqsUpTo(ApiEntries, MaxLen)
    /\ rres = << >>
    /\ rcalled = FALSE
    /\ InitQueue

ReducerOptimize ==
    /\ ~rcalled
    /\ rres' \in QueueReducer_optimize(rarg)
    /\ rcalled' = TRUE
    /\ UNCHANGED rarg
    /\ UNCHANGED qvars
    /\ UNCHANGED <<xvars, snap>>

NextReducer == ReducerOptimize

SpecReducer == InitReducer /\ [][NextReducer]_vars

(***************************************************************************)
(* Claims about QueueReducer.optimize, checked under SpecReducer.          *)
(***************************************************************************)
\* the positions of the queue that hold an entry for the key
PositionsOf(q, k) == {n \in DOMAIN q : q[n].obj = k}

\* the queue without the entries for the key
Without(q, k) == SelectSeq(q, LAMBDA e : e.obj # k)

\* the entries of a reduced mapping, as a set
ResEntries(res) == {Entry(res[k].op, k, res[k].attr) : k \in DOMAIN res}

\* the entries for the key are index, then index or reindex, then unindex
AddedThenRemoved(q, k) ==
    LET P == PositionsOf(q, k)
        lo == CHOOSE n \in P : \A m \in P : n <= m
        hi == CHOOSE n \in P : \A m \in P : m <= n
    IN /\ Cardinality(P) >= 2
       /\ q[lo].op = INDEX
       /\ q[hi].op = UNINDEX
       /\ \A n \in P \ {lo, hi} : q[n].op \in {INDEX, REINDEX}

ScenarioA ==
    <<Entry(INDEX, "/a", None), Entry(REINDEX, "/a", ListOf(<<"title">>)),
      Entry(UNINDEX, "/a", None)>>

ScenarioB ==
    <<Entry(REINDEX, "/a", ListOf(<<"title">>)),
      Entry(REINDEX, "/a", ListOf(<<"body">>))>>

ScenarioC ==
    <<Entry(INDEX, "/a", None), Entry(INDEX, "/b", None),
      Entry(UNINDEX, "/a", None)>>

\* C1: the list QueueReducer.optimize returns holds at most one entry for
\* each object key, whatever the queue it was given.
C1_OneEntryPerKey ==
    rcalled => \A x, y \in DOMAIN rres : rres[x].obj = rres[y].obj => x = y

C1_Witness ==
    /\ rcalled
    /\ \E k \in Keys : /\ Cardinality(PositionsOf(rarg, k)) >= 2
                       /\ \E x \in DOMAIN rres : rres[x].obj = k

\* C2: when the entries for a key are index, then any number of index or
\* reindex, then unindex as the last one, the reduced log holds no entry for
\* that key and holds for the other keys exactly the entries it would hold
\* had the key never been queued; scenario A reduces to the empty log and
\* scenario C to the single entry (INDEX, "/b", None).
C2_AddedThenRemovedVanishes ==
    rcalled =>
        /\ \A k \in Keys :
              AddedThenRemoved(rarg, k) =>
                  /\ \A x \in DOMAIN rres : rres[x].obj # k
                  /\ Range(rres) =
                        ResEntries(ReduceFold(Without(rarg, k), Len(Without(rarg, k))))
                  /\ Len(rres) = Cardinality(Range(rres))
        /\ (rarg = ScenarioA => rres = << >>)
        /\ (rarg = ScenarioC => rres = <<Entry(INDEX, "/b", None)>>)

C2_Witness ==
    /\ rcalled
    /\ rarg = ScenarioC
    /\ AddedThenRemoved(rarg, "/a")
    /\ rres = <<Entry(INDEX, "/b", None)>>

\* C3: when any entry queued for a key carries None ("all"), at whatever
\* position, the entry the reduced log holds for that key carries None.
C3_AllDominates ==
    rcalled =>
        \A x \in DOMAIN rres :
            (\E n \in DOMAIN rarg : rarg[n].obj = rres[x].obj /\ rarg[n].attr = None)
                => rres[x].attr = None

\* C4: when every entry queued for a key carries a list of attributes (so
\* that none of them is an unindex and the key is not cancelled), the
\* reduced log holds one entry for the key and its attributes are exactly
\* the union of the queued lists; scenario B reduces to the single entry
\* (REINDEX, "/a", (title, body)).
C4_ListsMergeToUnion ==
    rcalled =>
        /\ \A k \in Keys :
              LET P == PositionsOf(rarg, k)
              IN (P # {} /\ \A n \in P : rarg[n].attr.isList) =>
                    /\ Cardinality({x \in DOMAIN rres : rres[x].obj = k}) = 1
                    /\ \A x \in DOMAIN rres :
                          rres[x].obj = k =>
                              /\ rres[x].attr.isList
                              /\ Range(rres[x].attr.items) =
                                    UNION {Range(rarg[n].attr.items) : n \in P}
                              /\ Len(rres[x].attr.items) =
                                    Cardinality(Range(rres[x].attr.items))
        /\ (rarg = ScenarioB =>
                /\ Len(rres) = 1
                /\ rres[1].op = REINDEX
                /\ rres[1].obj = "/a"
                /\ Range(rres[1].attr.items) = {"title", "body"})

C4_Witness ==
    /\ rcalled
    /\ rarg = ScenarioB
    /\ Len(rres) = 1
    /\ Range(rres[1].attr.items) = {"title", "body"}

(***************************************************************************)
(* Claims about the queue.                                                 *)
(***************************************************************************)
\* how many calls of the methods the utility received
CallCount(u, M) ==
    Cardinality({x \in DOMAIN calls : calls[x].util = u /\ calls[x].method \in M})

\* C5: process() returns the number of entries the log holds once reduced,
\* not the number of entries appended (checked under SpecLegacy, where
\* process() is one step).
C5_ReturnsReducedCount ==
    [][(pc = "idle" /\ caller' = "process" /\ err' = "")
          => \A q \in Optimized(queue) : ret' = Len(q)]_vars

\* C6: a process() that ends well on a log that is not empty once reduced,
\* with two or more utilities, has called begin() on every utility in their
\* order, then the index, reindex and unindex methods, then commit() on
\* every utility in their order.
C6_BeginDispatchCommit ==
    (pc = "idle" /\ caller \in {"process", "processQueue"} /\ err = ""
        /\ ret > 0 /\ nutils >= 2 /\ nested = -1) =>
        /\ Len(calls) > 2 * nutils
        /\ SubSeq(calls, 1, nutils) = Notify("begin", nutils)
        /\ SubSeq(calls, Len(calls) - nutils + 1, Len(calls)) = Notify("commit", nutils)
        /\ \A x \in (nutils + 1)..(Len(calls) - nutils) :
              calls[x].method \in DispatchMethods

\* C7: once abort() has returned, the utilities have received abort(), each
\* once in their order, and no other call, the log is empty and the hook is
\* released.
C7_AbortOnlyAborts ==
    (pc = "idle" /\ err = "" /\ \E x \in DOMAIN calls : calls[x].method = "abort") =>
        /\ calls = Notify("abort", nutils)
        /\ queue = << >>
        /\ tmhook = "None"

C7_Witness ==
    /\ pc = "idle"
    /\ err = ""
    /\ nutils = 2
    /\ calls = Notify("abort", 2)
    /\ queue = << >>
    /\ tmhook = "None"

\* C8: while processQueue runs process(), a processQueue() called from
\* within a utility returns 0 and starts no flush: no utility receives a
\* second begin(), and each utility has received exactly one index, reindex
\* or unindex call per entry the loop has reached for it.
C8_NoNestedFlush ==
    caller = "processQueue" =>
        /\ nested \in {-1, 0}
        /\ \A u \in 1..nutils :
              /\ CallCount(u, {"begin"}) <= 1
              /\ pc \in {"dispatch", "incall"} =>
                    CallCount(u, DispatchMethods) =
                        IF u < upos \/ (u = upos /\ pc = "incall") THEN pos ELSE pos - 1
              /\ (pc = "idle" /\ err = "") => CallCount(u, DispatchMethods) = ret

C8_Witness ==
    /\ caller = "processQueue"
    /\ pc = "idle"
    /\ err = ""
    /\ nested = 0
    /\ nutils = 2
    /\ ret = 2
    /\ CallCount(2, DispatchMethods) = 2

\* C9: index, reindex and unindex called with None raise at once, and leave
\* the log and the hook as they were; no entry for None is ever queued.
C9_NoneIsRejected ==
    [][/\ err' = "AssertionError: invalid object" => (queue' = queue /\ tmhook' = tmhook)
       /\ \A x \in DOMAIN queue' : queue'[x].obj # "None"]_vars

C9_Witness ==
    /\ err = "AssertionError: invalid object"
    /\ queue = << >>
    /\ tmhook = "None"
    /\ processing = {}

\* C10: abort() leaves the log empty and the hook released also when the
\* abort() of a utility raises.
C10_AbortAlwaysClears ==
    (pc = "idle" /\ calls # << >> /\ calls[Len(calls)].method = "abort") =>
        /\ queue = << >>
        /\ tmhook = "None"

\* C11: an entry of the log whose operator is none of INDEX, REINDEX and
\* UNINDEX when process() is entered makes process() raise: the reduction
\* leaves it an entry of no known operator (so that no utility is called
\* with it as an index, reindex or unindex), and the loop never goes past
\* such an entry.
C11_InvalidOperationRaises ==
    [][/\ (pc = "begin" /\ pc' = "dispatch" /\ ValidPrefix(queue) # queue)
            => ValidPrefix(queue') # queue'
       /\ (pc = "dispatch" /\ pos' = pos + 1) => LoopList[pos].op \in Ops]_vars

\* C12: every process() that ends well and every clear() leave the log
\* empty and the hook released, and the next index, reindex or unindex that
\* queues an entry then arms a new registration.
C12_FlushAndClearRelease ==
    [][/\ (pc = "dispatch" /\ pc' = "idle" /\ processFinish)
            => (queue' = << >> /\ tmhook' = "None")
       /\ (pc = "idle" /\ pc' = "idle" /\ clearQueue)
            => (queue' = << >> /\ tmhook' = "None")
       /\ (/\ pc = "idle" /\ queue = << >> /\ tmhook = "None" /\ queue' # << >>
           /\ (index \/ reindex \/ unindex))
            => tmhook' = "QueueTM.register"]_vars

C12_Witness ==
    /\ pc = "idle"
    /\ caller = "process"
    /\ err = ""
    /\ ret = 2
    /\ queue = << >>
    /\ tmhook = "None"

\* C13: an index, reindex or unindex that queues an entry creates the
\* registration of the transaction manager when the log holds none (as after
\* a clear) and otherwise keeps the hook it finds, so that the appends made
\* between two clears create one registration, the first of them.
C13_OneRegistration ==
    [][(/\ Len(queue') = Len(queue) + 1
        /\ (index \/ reindex \/ unindex \/ nestedAppend))
          => IF tmhook = "None" THEN tmhook' = "QueueTM.register" ELSE tmhook' = tmhook]_vars

C13_Witness ==
    /\ pc = "idle"
    /\ err = ""
    /\ queue = <<Entry(INDEX, "/a", None), Entry(REINDEX, "/b", None)>>
    /\ tmhook = "QueueTM.register"

\* C14: the object an unindex() of the content object queues reports the
\* path the content object had when unindex() was called, goes on reporting
\* it when the content object is renamed, and is the object the utility's
\* unindex() receives.
C14_UnindexKeepsPath ==
    [][/\ (/\ pc = "idle"
           /\ Len(queue') = Len(queue) + 1
           /\ queue'[Len(queue')].op = UNINDEX
           /\ queue'[Len(queue')].obj \notin Keys)
            => PhysicalPath(queue'[Len(queue')].obj, path') = path
       /\ path' # path => \A o \in Held : PhysicalPath(o, path') = PhysicalPath(o, path)
       /\ (pc = "dispatch" /\ pc' = "incall" /\ LoopList[pos].op = UNINDEX)
            => /\ calls'[Len(calls')].obj = LoopList[pos].obj
               /\ calls'[Len(calls')].path = PhysicalPath(LoopList[pos].obj, path)]_vars

C14_Witness ==
    /\ path = "/new"
    /\ \E x \in DOMAIN calls :
          /\ calls[x].method = "unindex"
          /\ calls[x].obj \in Wrappers
          /\ calls[x].path = "/old"

\* C15: setState(getState()) leaves the log with the entries it had, in the
\* order they had, and leaves the hook as it was.
C15_RoundTripKeepsLog ==
    [][setStateOfGetState => (queue' = queue /\ tmhook' = tmhook)]_vars

C15_Witness ==
    /\ snap.phase = "restored"
    /\ queue = <<Entry(INDEX, "/a", None), Entry(UNINDEX, "/b", None)>>
    /\ tmhook = "QueueTM.register"

\* the entries thread t finds in the log and got to see in its last call
SeenBy(t) == Range(tq[Slot(t)]) \cup Range(tlast[t].seen)

\* thread t makes a step: its place in processQueue() or the record of its
\* last call changes, or its log grows
StepOf(t) ==
    \/ tpc'[t] # tpc[t]
    \/ tlast'[t] # tlast[t]
    \/ Len(tq'[Slot(t)]) > Len(tq[Slot(t)])

\* C16: under any interleaving of two threads, the entries a thread finds in
\* its log, gets from getState() and dispatches in process() are entries of
\* its own, and a step of one thread leaves the log of the other as it is.
C16_LogsAreThreadLocal ==
    [][\A t \in Threads :
          /\ \A e \in SeenBy(t) : e.obj = KeyOf(t)
          /\ \A u \in Threads \ {t} : (StepOf(u) /\ ~StepOf(t)) => tq'[Slot(t)] = tq[Slot(t)]]_vars

C16_Witness ==
    /\ tlast[1].kind = "flushed"
    /\ tlast[1].seen # << >>
    /\ tlast[2].kind = "getState"
    /\ tlast[2].seen = tq[Slot(2)]
    /\ Len(tq[Slot(2)]) = 2

\* C17: under any interleaving of two threads, a processQueue() of a thread
\* whose log is not empty flushes that log and is not skipped with the
\* entries left in it, and its removal of the queue from the processing set
\* does not fail.
C17_OwnLogIsFlushed ==
    \A t \in Threads :
        /\ ~(tpc[t] = "idle" /\ tlast[t].kind = "skipped" /\ tq[Slot(t)] # << >>)
        /\ tlast[t].kind # "KeyError"

\* C18: when no processQueue() is running, the processing set does not hold
\* the queue, also after a process() that a utility's exception ended.
C18_ProcessingEmptyWhenIdle ==
    pc = "idle" => LocalQueue \notin processing

\* C19: whatever calls were made on the queue, a log that is not empty has
\* its hook armed.
C19_PendingLogHasHook ==
    (pc = "idle" /\ queue # << >>) => tmhook # "None"

\* C20: when the first entry queued for a key is not an index and the last
\* one is an unindex, the reduced log holds (UNINDEX, key, None).
C20_ExistingObjectIsUnindexed ==
    rcalled =>
        \A k \in Keys :
            LET P == PositionsOf(rarg, k)
                lo == CHOOSE n \in P : \A m \in P : n <= m
                hi == CHOOSE n \in P : \A m \in P : m <= n
            IN (P # {} /\ rarg[lo].op # INDEX /\ rarg[hi].op = UNINDEX) =>
                  \E x \in DOMAIN rres : rres[x] = Entry(UNINDEX, k, None)

=============================================================================
